---------------------------- MODULE Spec2Model ----------------------------
(***************************************************************************)
(* A model of apple.py (APPLE picker): the construction of Apple           *)
(* (derivation of the defaults, creation of the output directory,          *)
(* verify_input_values), pick_particles (glob, the worker pool, pool.map,  *)
(* pool.terminate) and process_micrograph (the threshold loop around       *)
(* Picker.runSVM).                                                         *)
(*                                                                         *)
(* Strings are sequences of one-character strings.  An optional value of   *)
(* the configuration is None (the empty tuple) or Some(v) (a 1-tuple).     *)
(* Floating point expressions of the source are computed exactly on        *)
(* integers; the places where this matters are noted at the definitions.   *)
(***************************************************************************)
EXTENDS Integers, Sequences, FiniteSets, TLC

VARIABLES
    config,      \* ApplePickerConfig as main hands it to Apple()
    mrc_dir,     \* args.mrcdir
    entries,     \* the names of the entries of the directory mrc_dir
    fs,          \* the directories that exist (absolute, normalised paths)
    self,        \* the fields of the Apple object
    result,      \* how Apple.__init__ ended
    pc,          \* where the main program is
    data,        \* the parameter list pick_particles builds
    queue,       \* filenames handed to pool.map and not yet taken by a worker
    jobs,        \* per filename, the state of its process_micrograph call
    run,         \* number of the program run (the file system outlives a run)
    prev,        \* what the previous run was given and how its __init__ ended
    fsAtStart,   \* fs when the current run started
    cli          \* args.s and args.o, and the error main itself raised

vars == <<config, mrc_dir, entries, fs, self, result, pc, data, queue, jobs,
          run, prev, fsAtStart, cli>>

-----------------------------------------------------------------------------
(* Bounds of the model                                                     *)

\* most all-ones / all-zeros answers of the classifier within one job, when
\* one job is followed alone (SpecJob) and when a batch is (Spec)
MaxRetries == 3
MaxBatchRetries == 1
\* most entries of the input directory
MaxEntries == 3
\* largest pool size tried
MaxProc == 2
\* program runs against the same file system
MaxRuns == 2
\* particle sizes -MaxNegParticle .. MaxParticle are tried with the defaults
MaxParticle == 800
MaxNegParticle == 8

-----------------------------------------------------------------------------
(* Optional values and strings                                             *)

None == <<>>
Some(v) == <<v>>
IsNone(x) == x = <<>>
Val(x) == x[1]

Slash == "/"
Dot == "."

\* s[i..j] as Python's s[i-1:j]
Slice(s, i, j) == SubSeq(s, i, j)

StartsWithAt(s, i, t) ==
    /\ i + Len(t) - 1 <= Len(s)
    /\ \A k \in 1..Len(t) : s[i + k - 1] = t[k]

EndsWith(s, t) ==
    /\ Len(t) <= Len(s)
    /\ StartsWithAt(s, Len(s) - Len(t) + 1, t)

\* str.rfind(ch) + 1: the 1-based index of the last ch, 0 when there is none
RFind(s, ch) ==
    LET I == {i \in 1..Len(s) : s[i] = ch}
    IN  IF I = {} THEN 0 ELSE CHOOSE i \in I : \A j \in I : j <= i

\* str.rstrip(ch)
RECURSIVE RStrip(_, _)
RStrip(s, ch) ==
    IF s # <<>> /\ s[Len(s)] = ch THEN RStrip(Slice(s, 1, Len(s) - 1), ch) ELSE s

\* str.replace(old, new): every non-overlapping occurrence, left to right;
\* with old empty, new is put before every character and at the end.
RECURSIVE ReplaceFrom(_, _, _, _)
ReplaceFrom(s, i, old, new) ==
    IF old = <<>>
    THEN IF i > Len(s) THEN new ELSE new \o <<s[i]>> \o ReplaceFrom(s, i + 1, old, new)
    ELSE IF i > Len(s) THEN <<>>
         ELSE IF StartsWithAt(s, i, old)
              THEN new \o ReplaceFrom(s, i + Len(old), old, new)
              ELSE <<s[i]>> \o ReplaceFrom(s, i + 1, old, new)

str_replace(s, old, new) == ReplaceFrom(s, 1, old, new)

-----------------------------------------------------------------------------
(* os.path (posixpath) and the directories of the file system              *)

\* the working directory of the process
cwd == <<"/", "h">>

star_dir == <<"s", "t", "a", "r", "_", "d", "i", "r">>

AllSlashes(s) == \A i \in 1..Len(s) : s[i] = Slash

\* os.path.dirname
dirname(p) ==
    LET head == Slice(p, 1, RFind(p, Slash))
    IN  IF head # <<>> /\ ~AllSlashes(head) THEN RStrip(head, Slash) ELSE head

\* the components of a path: the maximal runs without a slash
RECURSIVE Components(_, _, _)
Components(p, i, cur) ==
    IF i > Len(p) THEN (IF cur = <<>> THEN <<>> ELSE <<cur>>)
    ELSE IF p[i] = Slash
         THEN (IF cur = <<>> THEN <<>> ELSE <<cur>>) \o Components(p, i + 1, <<>>)
         ELSE Components(p, i + 1, Append(cur, p[i]))

\* normpath's loop over the components of an absolute path: "." is dropped,
\* ".." removes the component before it (and is dropped at the root)
RECURSIVE NormComps(_, _, _)
NormComps(cs, i, acc) ==
    IF i > Len(cs) THEN acc
    ELSE IF cs[i] = <<Dot>> THEN NormComps(cs, i + 1, acc)
    ELSE IF cs[i] = <<Dot, Dot>>
         THEN NormComps(cs, i + 1, IF acc = <<>> THEN acc ELSE Slice(acc, 1, Len(acc) - 1))
         ELSE NormComps(cs, i + 1, Append(acc, cs[i]))

RECURSIVE JoinComps(_, _)
JoinComps(cs, i) ==
    IF i > Len(cs) THEN <<>> ELSE <<Slash>> \o cs[i] \o JoinComps(cs, i + 1)

\* posixpath keeps exactly two leading slashes
LeadingSlashes(p) ==
    IF StartsWithAt(p, 1, <<Slash, Slash>>) /\ ~StartsWithAt(p, 1, <<Slash, Slash, Slash>>)
    THEN <<Slash, Slash>> ELSE <<Slash>>

\* os.path.abspath: join with the working directory unless absolute, normpath
abspath(p) ==
    LET full == IF p # <<>> /\ p[1] = Slash THEN p ELSE cwd \o <<Slash>> \o p
        cs   == NormComps(Components(full, 1, <<>>), 1, <<>>)
        body == JoinComps(cs, 1)
    IN  IF cs = <<>> THEN LeadingSlashes(full)
        ELSE Slice(LeadingSlashes(full), 1, Len(LeadingSlashes(full)) - 1) \o body

\* os.path.exists, for directories
exists(fsys, p) == p # <<>> /\ abspath(p) \in fsys

\* the directory p and the directories above it
Ancestors(p) ==
    LET a == abspath(p)
    IN  {Slice(a, 1, i) : i \in {j \in 1..Len(a) : j = Len(a) \/ (a[j + 1] = Slash /\ a[j] # Slash)}}
        \cup {LeadingSlashes(a)}

\* os.makedirs(p) with exist_ok left False: the missing directories above p
\* are made, then p itself, which must not exist
makedirs(fsys, p) ==
    IF exists(fsys, p)
    THEN [raised |-> "FileExistsError", fs |-> fsys]
    ELSE [raised |-> "no", fs |-> fsys \cup Ancestors(p)]

-----------------------------------------------------------------------------
(* File names: glob.glob('{}/*.mrc') and os.path.splitext                  *)

mrc == <<".", "m", "r", "c">>

\* glob._ishidden
ishidden(name) == name # <<>> /\ name[1] = Dot

\* fnmatch of a name against '*.mrc' (case-sensitive on posix)
fnmatch_mrc(name) == EndsWith(name, mrc)

\* glob.glob('{}/*.mrc'.format(mrc_dir)), then os.path.basename of each: the
\* pattern does not start with a dot, so glob drops the hidden names first
glob_mrc(names) == {n \in names : ~ishidden(n) /\ fnmatch_mrc(n)}

\* os.path.splitext (genericpath._splitext) of a name without a slash: the
\* extension starts at the last dot, unless only dots come before that dot
splitext(name) ==
    LET dotIndex == RFind(name, Dot)
    IN  IF dotIndex > 0 /\ \E i \in 1..(dotIndex - 1) : name[i] # Dot
        THEN [root |-> Slice(name, 1, dotIndex - 1), ext |-> Slice(name, dotIndex, Len(name))]
        ELSE [root |-> name, ext |-> <<>>]

-----------------------------------------------------------------------------
(* Apple.__init__: the defaults                                            *)

\* int(x) of the quotient a / b, b > 0: truncation towards zero
IntOfQuotient(a, b) == IF a >= 0 THEN a \div b ELSE -((-a) \div b)

\* (variant) the quotient is rounded up
RoundOfQuotient_ceil(a, b) == (a + b - 1) \div b

\* np.round(a / b), b > 0, for a quotient that is never a tie (a tie of p*2/3
\* would need 4p = 6k + 3): the nearest integer, floor(a/b + 1/2)
RoundOfQuotient(a, b) == (2 * a + b) \div (2 * b)

\* lines 38-40: np.round(particle_size * 2 / 3), minus its value modulo 4
\* (numpy's % has the sign of the divisor, as TLA+'s)
query_window_size(particle_size) ==
    LET r == RoundOfQuotient(particle_size * 2, 3)
    IN  r - (r % 4)

\* line 45
default_max_particle_size(particle_size) == particle_size * 4

\* (variant) the divisor of the overlap used for the minimal size
default_min_particle_size_by_ten(particle_size) == IntOfQuotient(particle_size, 10)

\* line 48: int(particle_size / 6)
default_min_particle_size(particle_size) == IntOfQuotient(particle_size, 6)

\* line 51: int(particle_size / 10)
default_minimum_overlap_amount(particle_size) == IntOfQuotient(particle_size, 10)

\* line 60: qBox = (4000 ** 2) / (query_image_size ** 2) * 4, as the fraction
\* num / den; den = 0 is Python's ZeroDivisionError
qBox(query_image_size) ==
    [num |-> (4000 * 4000) * 4, den |-> query_image_size * query_image_size]

\* line 62: int(qBox * 3 / 100)
default_tau1(q) == IntOfQuotient(qBox(q).num * 3, qBox(q).den * 100)

\* line 65: int(qBox * 30 / 100)
default_tau2(q) == IntOfQuotient(qBox(q).num * 30, qBox(q).den * 100)

\* lines 54-56: the output directory derived from mrc_dir
default_output_dir(dir) == str_replace(abspath(dir), dirname(dir), star_dir)

\* (variant) makedirs without the test of os.path.exists
ensure_output_dir_unchecked(fsys, out) == makedirs(fsys, out)

\* lines 57-58: create the directory unless it exists
ensure_output_dir(fsys, out) ==
    IF ~exists(fsys, out) THEN makedirs(fsys, out) ELSE [raised |-> "no", fs |-> fsys]

-----------------------------------------------------------------------------
(* Apple.verify_input_values                                               *)

\* lines 95-96 and 99-100: 0 <= tau <= (4000 / query_image_size * 2) ** 2,
\* asked only with 1 <= query_image_size; for an integer tau the comparison
\* with the float bound is the comparison tau * q^2 <= 8000^2
tau_in_range(tau, q) == 0 <= tau /\ tau * (q * q) <= (4000 * 2) * (4000 * 2)

\* (variant) the container size is only compared with the particle size
verify_input_values_no_container_max(s) ==
    IF ~(1 <= Val(s.max_particle_size) /\ Val(s.max_particle_size) <= 3000) THEN 1
    ELSE IF ~(1 <= s.query_image_size /\ s.query_image_size <= 3000) THEN 2
    ELSE IF ~(5 <= s.particle_size /\ s.particle_size < 3000) THEN 3
    ELSE IF ~(1 <= Val(s.min_particle_size) /\ Val(s.min_particle_size) < 3000) THEN 4
    ELSE IF ~tau_in_range(Val(s.tau1), s.query_image_size) THEN 5
    ELSE IF ~tau_in_range(Val(s.tau2), s.query_image_size) THEN 6
    ELSE IF ~(0 <= Val(s.minimum_overlap_amount) /\ Val(s.minimum_overlap_amount) <= 3000) THEN 7
    ELSE IF ~(s.particle_size <= s.container_size) THEN 8
    ELSE IF s.particle_size < s.query_image_size THEN 9
    ELSE IF s.proc < 1 THEN 10
    ELSE 0

\* (variant) the container size is checked before the thresholds
verify_input_values_container_first(s) ==
    IF ~(1 <= Val(s.max_particle_size) /\ Val(s.max_particle_size) <= 3000) THEN 1
    ELSE IF ~(1 <= s.query_image_size /\ s.query_image_size <= 3000) THEN 2
    ELSE IF ~(5 <= s.particle_size /\ s.particle_size < 3000) THEN 3
    ELSE IF ~(1 <= Val(s.min_particle_size) /\ Val(s.min_particle_size) < 3000) THEN 4
    ELSE IF ~(s.particle_size <= s.container_size /\ s.container_size <= 1900) THEN 8
    ELSE IF ~tau_in_range(Val(s.tau1), s.query_image_size) THEN 5
    ELSE IF ~tau_in_range(Val(s.tau2), s.query_image_size) THEN 6
    ELSE IF ~(0 <= Val(s.minimum_overlap_amount) /\ Val(s.minimum_overlap_amount) <= 3000) THEN 7
    ELSE IF s.particle_size < s.query_image_size THEN 9
    ELSE IF s.proc < 1 THEN 10
    ELSE 0

\* the number of the check that raises ConfigError, in the order of the
\* source, or 0 when none does
verify_input_values(s) ==
    IF ~(1 <= Val(s.max_particle_size) /\ Val(s.max_particle_size) <= 3000) THEN 1
    ELSE IF ~(1 <= s.query_image_size /\ s.query_image_size <= 3000) THEN 2
    ELSE IF ~(5 <= s.particle_size /\ s.particle_size < 3000) THEN 3
    ELSE IF ~(1 <= Val(s.min_particle_size) /\ Val(s.min_particle_size) < 3000) THEN 4
    ELSE IF ~tau_in_range(Val(s.tau1), s.query_image_size) THEN 5
    ELSE IF ~tau_in_range(Val(s.tau2), s.query_image_size) THEN 6
    ELSE IF ~(0 <= Val(s.minimum_overlap_amount) /\ Val(s.minimum_overlap_amount) <= 3000) THEN 7
    ELSE IF ~(s.particle_size <= s.container_size /\ s.container_size <= 1900) THEN 8
    ELSE IF s.particle_size < s.query_image_size THEN 9
    ELSE IF s.proc < 1 THEN 10
    ELSE 0

-----------------------------------------------------------------------------
(* Apple.__init__                                                          *)

NoResult == [kind |-> "none", check |-> 0]

\* lines 25-35
copy_config(cfg) ==
    [particle_size          |-> cfg.particle_size,
     query_image_size       |-> cfg.query_image_size,
     query_window_size      |-> cfg.query_window_size,
     max_particle_size      |-> cfg.max_particle_size,
     min_particle_size      |-> cfg.min_particle_size,
     minimum_overlap_amount |-> cfg.minimum_overlap_amount,
     tau1                   |-> cfg.tau1,
     tau2                   |-> cfg.tau2,
     container_size         |-> cfg.container_size,
     proc                   |-> cfg.proc,
     output_dir             |-> cfg.output_dir]

\* (variant) a query_image_size of the configuration is kept
set_query_image_size_kept(s) ==
    [s EXCEPT !.query_image_size =
        IF IsNone(@) THEN query_window_size(s.particle_size) ELSE Val(@)]

\* line 42: query_image_size is assigned whatever the configuration held
set_query_image_size(s) ==
    [s EXCEPT !.query_image_size = query_window_size(s.particle_size)]

\* lines 44-51
set_size_defaults(s) ==
    [s EXCEPT
       !.max_particle_size = IF IsNone(@) THEN Some(default_max_particle_size(s.particle_size)) ELSE @,
       !.min_particle_size = IF IsNone(@) THEN Some(default_min_particle_size(s.particle_size)) ELSE @,
       !.minimum_overlap_amount =
            IF IsNone(@) THEN Some(default_minimum_overlap_amount(s.particle_size)) ELSE @]

\* lines 61-65
set_tau_defaults(s) ==
    [s EXCEPT
       !.tau1 = IF IsNone(@) THEN Some(default_tau1(s.query_image_size)) ELSE @,
       !.tau2 = IF IsNone(@) THEN Some(default_tau2(s.query_image_size)) ELSE @]

\* (variant) the output directory is made after the validation has passed
AppleInit_validate_first(cfg, dir, fsys) ==
    LET s1  == set_size_defaults(set_query_image_size(copy_config(cfg)))
        out == IF IsNone(s1.output_dir) THEN default_output_dir(dir) ELSE Val(s1.output_dir)
        mk  == IF IsNone(s1.output_dir) THEN ensure_output_dir(fsys, out)
               ELSE [raised |-> "no", fs |-> fsys]
        s2  == [s1 EXCEPT !.output_dir = Some(out)]
    IN  IF qBox(s2.query_image_size).den = 0
        THEN [self |-> s2, fs |-> fsys, result |-> [kind |-> "ZeroDivisionError", check |-> 0]]
        ELSE LET s3 == set_tau_defaults(s2)
                 k  == verify_input_values(s3)
             IN  IF k # 0
                 THEN [self |-> s3, fs |-> fsys, result |-> [kind |-> "ConfigError", check |-> k]]
                 ELSE IF mk.raised # "no"
                 THEN [self |-> s3, fs |-> mk.fs, result |-> [kind |-> mk.raised, check |-> 0]]
                 ELSE [self |-> s3, fs |-> mk.fs, result |-> [kind |-> "ok", check |-> 0]]

\* Apple.__init__(config, mrc_dir) on the file system fsys: the fields of the
\* object as far as they were assigned, the file system, and how it ended
AppleInit(cfg, dir, fsys) ==
    LET s1  == set_size_defaults(set_query_image_size(copy_config(cfg)))
        out == IF IsNone(s1.output_dir) THEN default_output_dir(dir) ELSE Val(s1.output_dir)
        mk  == IF IsNone(s1.output_dir) THEN ensure_output_dir(fsys, out)
               ELSE [raised |-> "no", fs |-> fsys]
        s2  == [s1 EXCEPT !.output_dir = Some(out)]
    IN  IF mk.raised # "no"
        THEN [self |-> s2, fs |-> mk.fs, result |-> [kind |-> mk.raised, check |-> 0]]
        ELSE IF qBox(s2.query_image_size).den = 0
        THEN [self |-> s2, fs |-> mk.fs, result |-> [kind |-> "ZeroDivisionError", check |-> 0]]
        ELSE LET s3 == set_tau_defaults(s2)
                 k  == verify_input_values(s3)
             IN  [self |-> s3, fs |-> mk.fs,
                  result |-> IF k = 0 THEN [kind |-> "ok", check |-> 0]
                             ELSE [kind |-> "ConfigError", check |-> k]]

-----------------------------------------------------------------------------
(* pick_particles and process_micrograph                                   *)

\* a segmentation grid of two windows (a grid has at least one window)
Grids == {<<0, 0>>, <<0, 1>>, <<1, 0>>, <<1, 1>>}

\* np.array_equal(segmentation, np.ones(shape)), np.array_equal(.., np.zeros(shape))
all_ones(g) == \A i \in 1..Len(g) : g[i] = 1
all_zeros(g) == \A i \in 1..Len(g) : g[i] = 0

\* the state of the call of process_micrograph for one filename
\*   pc        queued, the Picker call that comes next, done, raised (an
\*             error left process_micrograph) or killed (with its worker)
\*   tau1/2    the locals tau1, tau2
\*   picker    the tau1, tau2 given to Picker.initializeParameters
\*   segmentation       the grid runSVM returned last (line 177)
\*   ones, zeros, svm   all-ones grids, all-zeros grids, grids returned by runSVM
\*   last_call the thresholds runSVM last ran with: those of its picker
\*   cleaned   segmentation as morphologyOps returned it (line 190)
\*   extracted the grid handed to extractParticles (line 193)
\*   calls     calls of process_micrograph for this filename
\*   pickers   Picker objects made for this filename
\*   reads, scores, morphs, written   calls of readMRC, queryScore,
\*             morphologyOps and extractParticles that returned
NewJob ==
    [pc |-> "queued", tau1 |-> 0, tau2 |-> 0, picker |-> None, segmentation |-> None,
     ones |-> 0, zeros |-> 0, svm |-> 0, calls |-> 0, pickers |-> 0, written |-> 0,
     last_call |-> None, cleaned |-> None, extracted |-> None,
     reads |-> 0, scores |-> 0, morphs |-> 0]

Running(j) == j.pc \in {"readMRC", "queryScore", "runSVM", "morphologyOps", "extractParticles"}

\* lines 123-133
build_data(dir, s) ==
    [directory |-> dir, pSize |-> s.particle_size, maxSize |-> Val(s.max_particle_size),
     minSize |-> Val(s.min_particle_size), qSize |-> s.query_image_size,
     tau1 |-> Val(s.tau1), tau2 |-> Val(s.tau2), moa |-> Val(s.minimum_overlap_amount),
     cSize |-> s.container_size, directory_out |-> Val(s.output_dir)]

\* lines 140-167: the extension test, the locals, Picker() and initializeParameters
start_job(j, filename, d) ==
    IF splitext(filename).ext = mrc
    THEN [j EXCEPT !.pc = "readMRC", !.tau1 = d.tau1, !.tau2 = d.tau2,
                   !.picker = Some([tau1 |-> d.tau1, tau2 |-> d.tau2]),
                   !.calls = @ + 1, !.pickers = @ + 1]
    ELSE [j EXCEPT !.pc = "done", !.calls = @ + 1]

\* (variant) both degenerate answers raise tau2
after_runSVM_one_threshold(j, g) ==
    IF all_ones(g) \/ all_zeros(g)
    THEN [j EXCEPT !.segmentation = Some(g), !.last_call = j.picker, !.svm = @ + 1,
                   !.ones = IF all_ones(g) THEN @ + 1 ELSE @,
                   !.zeros = IF all_ones(g) THEN @ ELSE @ + 1, !.tau2 = @ + 500]
    ELSE [j EXCEPT !.segmentation = Some(g), !.last_call = j.picker, !.svm = @ + 1, !.pc = "morphologyOps"]

\* (variant) the loop gives up after two retries and keeps the last grid
after_runSVM_capped(j, g) ==
    IF all_ones(g) /\ j.ones + j.zeros < 2
    THEN [j EXCEPT !.segmentation = Some(g), !.last_call = j.picker, !.svm = @ + 1,
                   !.ones = @ + 1, !.tau2 = @ + 500]
    ELSE IF all_zeros(g) /\ j.ones + j.zeros < 2
    THEN [j EXCEPT !.segmentation = Some(g), !.last_call = j.picker, !.svm = @ + 1,
                   !.zeros = @ + 1, !.tau1 = @ + 500]
    ELSE [j EXCEPT !.segmentation = Some(g), !.last_call = j.picker, !.svm = @ + 1,
                   !.pc = "morphologyOps"]

\* lines 177-187: one pass of the loop, runSVM having returned grid g
after_runSVM(j, g) ==
    IF all_ones(g)
    THEN [j EXCEPT !.segmentation = Some(g), !.last_call = j.picker, !.svm = @ + 1, !.ones = @ + 1, !.tau2 = @ + 500]
    ELSE IF all_zeros(g)
    THEN [j EXCEPT !.segmentation = Some(g), !.last_call = j.picker, !.svm = @ + 1, !.zeros = @ + 1, !.tau1 = @ + 500]
    ELSE [j EXCEPT !.segmentation = Some(g), !.last_call = j.picker, !.svm = @ + 1, !.pc = "morphologyOps"]

\* what morphologyOps may return for a grid: windows are discarded, none added
CleanedGrids(g) == {c \in Grids : \A i \in 1..Len(g) : c[i] <= g[i]}

\* (variant) the cleaning is entered again after it returned
after_morphologyOps_again(j, c) ==
    [j EXCEPT !.pc = "morphologyOps", !.morphs = @ + 1, !.cleaned = Some(c)]

\* line 190: segmentation = Picker.morphologyOps(picker, segmentation), c returned
after_morphologyOps(j, c) ==
    [j EXCEPT !.pc = "extractParticles", !.morphs = @ + 1, !.cleaned = Some(c)]

\* line 193: Picker.extractParticles(picker, segmentation), and the return
after_extractParticles(j) ==
    [j EXCEPT !.pc = "done", !.written = @ + 1, !.extracted = j.cleaned]

\* (variant) the task is handed to a worker and stays on the queue
take_task_kept(q, filename) == q

\* a worker takes a task off the pool's task queue
take_task(q, filename) == q \ {filename}

\* (variant) pool.map takes a task that raised for a finished one
map_returns_ignoring_errors(q, js) ==
    q = {} /\ \A f \in DOMAIN js : js[f].pc \in {"done", "raised"}

\* (variant) pool.map returns as soon as every task has been taken
map_returns_when_taken(q, js) == q = {}

\* pool.map returns when every task has been taken and has returned
map_returns(q, js) == q = {} /\ \A f \in DOMAIN js : js[f].pc = "done"

\* pool.map raises in the parent once a task has raised
map_raises(js) == \E f \in DOMAIN js : js[f].pc = "raised"

\* pool.terminate (line 138), and the end of the process after an error: the
\* workers are killed, with whatever they were running
kill_workers(js) == [f \in DOMAIN js |-> IF Running(js[f]) THEN [js[f] EXCEPT !.pc = "killed"] ELSE js[f]]

-----------------------------------------------------------------------------
(* The inputs                                                              *)

Cfg(p, qis, qws, maxp, minp, moa, t1, t2, cs, pr, out) ==
    [particle_size |-> p, query_image_size |-> qis, query_window_size |-> qws,
     max_particle_size |-> maxp, min_particle_size |-> minp,
     minimum_overlap_amount |-> moa, tau1 |-> t1, tau2 |-> t2,
     container_size |-> cs, proc |-> pr, output_dir |-> out]

\* only particle_size, container_size and proc set
Defaults(p, cs, pr) == Cfg(p, None, None, None, None, None, None, None, cs, pr, None)

AllUnset(cfg) ==
    /\ IsNone(cfg.query_image_size) /\ IsNone(cfg.query_window_size)
    /\ IsNone(cfg.max_particle_size) /\ IsNone(cfg.min_particle_size)
    /\ IsNone(cfg.minimum_overlap_amount) /\ IsNone(cfg.tau1) /\ IsNone(cfg.tau2)
    /\ IsNone(cfg.output_dir)

\* an output directory given with -o (main checks that it exists)
GivenOutDir == <<"/", "o">>

\* input directories
MrcDirs ==
    { <<"/", "d", "/", "m">>, <<"/", "d", "/", "m", "/">>, <<"d", "/", "m">>, <<"m">>,
      <<"/", "m">>, <<".", "/", "m">>, <<"h", "/", "m">> }

TheMrcDir == <<"/", "d", "/", "m">>

FsInit == UNION {Ancestors(d) : d \in MrcDirs} \cup Ancestors(cwd) \cup Ancestors(GivenOutDir)

EntryNames ==
    { <<"a", ".", "m", "r", "c">>, <<"b", ".", "m", "r", "c">>,
      <<".", "h", ".", "m", "r", "c">>, <<".", "m", "r", "c">>, <<"n", ".", "t", "x", "t">> }

Directories == {d \in SUBSET EntryNames : Cardinality(d) <= MaxEntries}

\* configurations of the whole program
ProgramConfigs ==
    {Defaults(300, 1900, pr) : pr \in 1..MaxProc} \cup {Defaults(3, 1900, 1)}

\* configurations of one job followed alone
JobConfigs ==
    { Defaults(300, 1900, 1),
      Cfg(300, None, None, None, None, None, Some(7), Some(9), 1900, 1, None) }

\* configurations of the construction alone
WideConfigs ==
    {Defaults(p, 1900, 1) : p \in (0 - MaxNegParticle)..MaxParticle}
    \cup
    { Cfg(p, qis, qws, maxp, minp, moa, t1, t2, cs, pr, out) :
        p \in {3, 6, 300}, qis \in {None, Some(100)}, qws \in {None, Some(100)},
        maxp \in {None, Some(3000), Some(3001)}, minp \in {None, Some(0), Some(10)},
        moa \in {None, Some(0 - 1), Some(20)}, t1 \in {None, Some(0 - 1), Some(40)},
        t2 \in {None, Some(1600), Some(1601)}, cs \in {299, 1900, 1901},
        pr \in {0, 1}, out \in {None, Some(GivenOutDir)} }

\* configurations of the runs that share a file system
OutDirConfigs ==
    { Defaults(300, 1900, 1), Defaults(300, 100, 1), Defaults(3, 1900, 1),
      Cfg(300, None, None, None, None, None, None, None, 1900, 1, Some(GivenOutDir)) }

NoApple == copy_config(Defaults(0, 0, 0))

\* no option given on the command line
NoCli == [s |-> None, o |-> None, raised |-> "no"]

\* an output directory named with -o that does not exist
MissingOutDir == <<"/", "x">>

\* command lines: -s absent or an integer, -o absent or a path
CliArgs ==
    { [s |-> sz, o |-> out, raised |-> "no"] :
        sz \in {None, Some(0), Some(3), Some(300), Some(0 - 1)},
        out \in {None, Some(GivenOutDir), Some(MissingOutDir)} }

\* ApplePickerConfig as config.py sets it: particle_size None or an integer
\* (an optional value until main has tested it)
ConfigPyConfigs ==
    { Cfg(ps, None, None, None, None, None, None, None, 1900, 1, None) :
        ps \in {None, Some(300), Some(3)} }

\* listings of the input directory for the runs started from the command line
CliListings == {d \in Directories : Cardinality(d) <= 1}

-----------------------------------------------------------------------------
(* The program                                                             *)

InitWith(cfgs, dirs, listings) ==
    /\ config \in cfgs
    /\ mrc_dir \in dirs
    /\ entries \in listings
    /\ fs = FsInit
    /\ self = NoApple
    /\ result = NoResult
    /\ pc = "start"
    /\ data = None
    /\ queue = {}
    /\ jobs = <<>>
    /\ run = 1
    /\ prev = None
    /\ fsAtStart = FsInit
    /\ cli = NoCli

\* Python's truth value of an optional integer and of an optional string
truthy_int(x) == ~IsNone(x) /\ Val(x) # 0
truthy_str(x) == ~IsNone(x) /\ Val(x) # <<>>

\* (variant) -o is taken without the test of os.path.exists
main_args_o_unchecked(args, cfg, fsys) ==
    LET ps == IF truthy_int(args.s) THEN args.s ELSE cfg.particle_size
    IN  IF IsNone(ps) THEN [raised |-> "Exception", config |-> cfg]
        ELSE [raised |-> "no",
              config |-> [cfg EXCEPT !.particle_size = Val(ps),
                                     !.output_dir = IF truthy_str(args.o) THEN args.o ELSE @]]

\* lines 209-218: the configuration after the options, or the error raised
main_args(args, cfg, fsys) ==
    LET ps == IF truthy_int(args.s) THEN args.s ELSE cfg.particle_size
    IN  IF IsNone(ps) THEN [raised |-> "Exception", config |-> cfg]
        ELSE IF truthy_str(args.o) /\ ~exists(fsys, Val(args.o))
        THEN [raised |-> "ConfigError", config |-> cfg]
        ELSE [raised |-> "no",
              config |-> [cfg EXCEPT !.particle_size = Val(ps),
                                     !.output_dir = IF truthy_str(args.o) THEN args.o ELSE @]]

\* the main program up to the construction of Apple (lines 207-218)
Main ==
    /\ pc = "main"
    /\ LET r == main_args(cli, config, fs)
       IN  /\ cli' = [cli EXCEPT !.raised = r.raised]
           /\ config' = r.config
           /\ pc' = IF r.raised = "no" THEN "start" ELSE "aborted"
    /\ UNCHANGED <<mrc_dir, entries, fs, self, result, data, queue, jobs, run, prev, fsAtStart>>

\* apple = Apple(ApplePickerConfig, args.mrcdir) (line 220)
Construct ==
    /\ pc = "start"
    /\ LET r == AppleInit(config, mrc_dir, fs)
       IN  /\ self' = r.self
           /\ fs' = r.fs
           /\ result' = r.result
           /\ pc' = IF r.result.kind = "ok" THEN "constructed" ELSE "error"
    /\ UNCHANGED <<config, mrc_dir, entries, data, queue, jobs, run, prev, fsAtStart, cli>>

\* pick_particles up to the call of pool.map (lines 120-137)
pick_particles ==
    /\ pc = "constructed"
    /\ LET filenames == glob_mrc(entries)
       IN  /\ data' = Some(build_data(mrc_dir, self))
           /\ queue' = filenames
           /\ jobs' = [f \in filenames |-> NewJob]
    /\ pc' = "mapping"
    /\ UNCHANGED <<config, mrc_dir, entries, fs, self, result, run, prev, fsAtStart, cli>>

WorkersAlive == pc \in {"mapping", "failed"}

Frame == UNCHANGED <<config, mrc_dir, entries, fs, self, result, data, run, prev, fsAtStart, cli>>

\* a free worker of the pool takes filename and enters process_micrograph
Dispatch(filename) ==
    /\ WorkersAlive
    /\ filename \in queue
    /\ Cardinality({f \in DOMAIN jobs : Running(jobs[f])}) < self.proc
    /\ queue' = take_task(queue, filename)
    /\ jobs' = [jobs EXCEPT ![filename] = start_job(@, filename, Val(data))]
    /\ UNCHANGED pc
    /\ Frame

\* Picker.readMRC (line 170)
ReadMRC(filename) ==
    /\ WorkersAlive
    /\ jobs[filename].pc = "readMRC"
    /\ jobs' = [jobs EXCEPT ![filename].pc = "queryScore", ![filename].reads = @ + 1]
    /\ UNCHANGED <<pc, queue>>
    /\ Frame

\* Picker.queryScore (line 173)
QueryScore(filename) ==
    /\ WorkersAlive
    /\ jobs[filename].pc = "queryScore"
    /\ jobs' = [jobs EXCEPT ![filename].pc = "runSVM", ![filename].scores = @ + 1]
    /\ UNCHANGED <<pc, queue>>
    /\ Frame

\* (variant) the job's thresholds are stored back into the data list
data_after_pass_merged(d, j) == [d EXCEPT !.tau1 = j.tau1, !.tau2 = j.tau2]

\* the data list after a pass of job j through the loop: lines 181 and 184
\* rebind the locals tau1 and tau2, data[5] and data[6] are not assigned
data_after_pass(d, j) == d

\* one pass of the loop (lines 175-187); the classifier answers a degenerate
\* grid at most cap times
RunSVM(filename, cap) ==
    /\ WorkersAlive
    /\ jobs[filename].pc = "runSVM"
    /\ \E g \in Grids :
         /\ (all_ones(g) \/ all_zeros(g)) => jobs[filename].ones + jobs[filename].zeros < cap
         /\ jobs' = [jobs EXCEPT ![filename] = after_runSVM(@, g)]
    /\ data' = Some(data_after_pass(Val(data), jobs'[filename]))
    /\ UNCHANGED <<pc, queue>>
    /\ UNCHANGED <<config, mrc_dir, entries, fs, self, result, run, prev, fsAtStart, cli>>

\* Picker.morphologyOps (line 190)
MorphologyOps(filename) ==
    /\ WorkersAlive
    /\ jobs[filename].pc = "morphologyOps"
    /\ \E c \in CleanedGrids(Val(jobs[filename].segmentation)) :
         jobs' = [jobs EXCEPT ![filename] = after_morphologyOps(@, c)]
    /\ UNCHANGED <<pc, queue>>
    /\ Frame

\* Picker.extractParticles (line 193), and the return of process_micrograph
ExtractParticles(filename) ==
    /\ WorkersAlive
    /\ jobs[filename].pc = "extractParticles"
    /\ jobs' = [jobs EXCEPT ![filename] = after_extractParticles(@)]
    /\ UNCHANGED <<pc, queue>>
    /\ Frame

\* a call into Picker raises; process_micrograph catches nothing
PickerRaises(filename) ==
    /\ WorkersAlive
    /\ Running(jobs[filename])
    /\ jobs' = [jobs EXCEPT ![filename].pc = "raised"]
    /\ UNCHANGED <<pc, queue>>
    /\ Frame

\* pool.map returns, pool.terminate, pick_particles returns (lines 137-138)
MapReturn ==
    /\ pc = "mapping"
    /\ map_returns(queue, jobs)
    /\ pc' = "returned"
    /\ jobs' = kill_workers(jobs)
    /\ UNCHANGED queue
    /\ Frame

\* pool.map raises the error of a task; it leaves pick_particles and main
MapRaise ==
    /\ pc = "mapping"
    /\ map_raises(jobs)
    /\ pc' = "failed"
    /\ UNCHANGED <<jobs, queue>>
    /\ Frame

\* the process ends after the error, and its workers with it
Exit ==
    /\ pc = "failed"
    /\ pc' = "exited"
    /\ jobs' = kill_workers(jobs)
    /\ UNCHANGED queue
    /\ Frame

\* the program is run again, on the file system the run before left
Rerun ==
    /\ pc \in {"constructed", "error"}
    /\ run < MaxRuns
    /\ \E c \in OutDirConfigs, d \in MrcDirs :
         /\ config' = c
         /\ mrc_dir' = d
    /\ prev' = Some([config |-> config, mrc_dir |-> mrc_dir, result |-> result,
                     output_dir |-> self.output_dir])
    /\ run' = run + 1
    /\ pc' = "start"
    /\ self' = NoApple
    /\ result' = NoResult
    /\ fsAtStart' = fs
    /\ UNCHANGED <<entries, fs, data, queue, jobs, cli>>

Program(cap) ==
    \/ Construct
    \/ pick_particles
    \/ \E f \in DOMAIN jobs : Dispatch(f)
    \/ \E f \in DOMAIN jobs : ReadMRC(f)
    \/ \E f \in DOMAIN jobs : QueryScore(f)
    \/ \E f \in DOMAIN jobs : RunSVM(f, cap)
    \/ \E f \in DOMAIN jobs : MorphologyOps(f)
    \/ \E f \in DOMAIN jobs : ExtractParticles(f)
    \/ \E f \in DOMAIN jobs : PickerRaises(f)
    \/ MapReturn
    \/ MapRaise
    \/ Exit

\* the whole program, on any listing of the input directory
Init == InitWith(ProgramConfigs, {TheMrcDir}, Directories)
Next == Program(MaxBatchRetries)
Spec == Init /\ [][Next]_vars

\* the program from its command line
InitMain ==
    /\ config \in ConfigPyConfigs
    /\ mrc_dir = TheMrcDir
    /\ entries \in CliListings
    /\ fs = FsInit
    /\ self = NoApple
    /\ result = NoResult
    /\ pc = "main"
    /\ data = None
    /\ queue = {}
    /\ jobs = <<>>
    /\ run = 1
    /\ prev = None
    /\ fsAtStart = FsInit
    /\ cli \in CliArgs
NextMain == Main \/ Program(MaxBatchRetries)
SpecMain == InitMain /\ [][NextMain]_vars

\* the program on a directory of one micrograph, with a pool of one worker
InitJob == InitWith(JobConfigs, {TheMrcDir}, {{<<"a", ".", "m", "r", "c">>}})
NextJob == Program(MaxRetries)
SpecJob == InitJob /\ [][NextJob]_vars

\* the construction of Apple alone
InitResolve == InitWith(WideConfigs, {TheMrcDir}, {{}})
NextResolve == Construct
SpecResolve == InitResolve /\ [][NextResolve]_vars

\* the construction of Apple in successive runs
InitOutDir == InitWith(OutDirConfigs, MrcDirs, {{}})
NextOutDir == Construct \/ Rerun
SpecOutDir == InitOutDir /\ [][NextOutDir]_vars

-----------------------------------------------------------------------------
(* Batch coverage, failure and the barrier of pool.map (Spec)              *)

Submitted == pc \in {"mapping", "returned", "failed", "exited"}

\* the entries whose extension, by os.path.splitext, is exactly '.mrc'
MrcEntries == {e \in entries : splitext(e).ext = mrc}

\* those of them whose name does not begin with a dot
VisibleMrcEntries == {e \in MrcEntries : e[1] # Dot}

C2_NoReturnAfterFailure ==
    (\E f \in DOMAIN jobs : jobs[f].pc = "raised") => pc \in {"mapping", "failed", "exited"}

\* one job has raised, the run has ended in failure, and another job was
\* cut off before it completed
C2_Witness ==
    /\ pc = "exited"
    /\ \E f \in DOMAIN jobs : jobs[f].pc = "raised"
    /\ \E f \in DOMAIN jobs : jobs[f].pc = "killed" /\ jobs[f].written = 0

\* C3: when pick_particles has returned, every job handed to pool.map has
\* completed its extractParticles step, and pool.terminate killed no job.
C3_ReturnAfterAllJobs ==
    pc = "returned" =>
        \A f \in DOMAIN jobs : jobs[f].pc = "done" /\ jobs[f].written = 1

\* pick_particles has returned from a batch of two micrographs on two workers
C3_Witness ==
    /\ pc = "returned"
    /\ self.proc = 2
    /\ Cardinality(DOMAIN jobs) = 2
    /\ \A f \in DOMAIN jobs : jobs[f].written = 1

-----------------------------------------------------------------------------
(* The threshold loop of one job (SpecJob)                                 *)

LeftLoop(j) ==
    /\ ~IsNone(j.segmentation)
    /\ ~all_ones(Val(j.segmentation))
    /\ ~all_zeros(Val(j.segmentation))

\* C4: after k all-ones and m all-zeros grids the job's tau2 is the resolved
\* tau2 + 500*k and its tau1 the resolved tau1 + 500*m; the job has left the
\* loop exactly when the last grid was mixed, after k + m retries, that is
\* k + m + 1 grids, and is in the loop after k + m grids otherwise.
C4_ThresholdRepair ==
    \A f \in DOMAIN jobs :
        LET j == jobs[f]
        IN  j.calls = 1 =>
              /\ j.tau2 = Val(self.tau2) + 500 * j.ones
              /\ j.tau1 = Val(self.tau1) + 500 * j.zeros
              /\ j.svm = j.ones + j.zeros + (IF LeftLoop(j) THEN 1 ELSE 0)
              /\ j.pc \in {"morphologyOps", "extractParticles", "done"} => LeftLoop(j)
              /\ j.pc = "runSVM" => ~LeftLoop(j)

\* a job that saw all-ones and all-zeros grids, then a mixed one, and is done
C4_Witness ==
    \E f \in DOMAIN jobs :
        /\ jobs[f].pc = "done"
        /\ jobs[f].ones >= 1
        /\ jobs[f].zeros >= 1
        /\ jobs[f].svm = jobs[f].ones + jobs[f].zeros + 1

\* the thresholds the classifier runs with when it is called next: runSVM
\* takes the picker, the micrograph and the score (line 177)
NextCall(j) == j.picker

\* C12: every call of the classifier runs with the job's current tau1 and
\* tau2, so a retry never runs with the thresholds of the attempt before it.
C12_ClassifierGetsLocals ==
    \A f \in DOMAIN jobs :
        LET j == jobs[f]
        IN  j.pc = "runSVM" =>
              /\ NextCall(j) = Some([tau1 |-> j.tau1, tau2 |-> j.tau2])
              /\ j.svm >= 1 => NextCall(j) # j.last_call

InLoop(j) == j.pc = "runSVM"
PastLoop(j) == j.pc \in {"morphologyOps", "extractParticles", "done"} /\ j.pickers = 1

\* C13: a call of the classifier that returns a degenerate grid leaves the job
\* in the loop, however many retries came before, and one that returns a mixed
\* grid takes it to morphologyOps; the job is past the loop only by that step
\* and only with a mixed grid, so a job that saw only degenerate grids has
\* not completed.
C13_LoopExit ==
    /\ [][\A f \in DOMAIN jobs \cap DOMAIN jobs' :
            LET j == jobs[f]
                k == jobs'[f]
            IN  /\ (InLoop(j) /\ k.svm = j.svm + 1) =>
                      /\ ~LeftLoop(k) => InLoop(k) /\ k.ones + k.zeros = j.ones + j.zeros + 1
                      /\ LeftLoop(k) => k.pc = "morphologyOps"
                /\ (PastLoop(k) /\ ~PastLoop(j)) =>
                      InLoop(j) /\ k.svm = j.svm + 1 /\ LeftLoop(k)]_vars
    /\ [](\A f \in DOMAIN jobs :
            (jobs[f].pickers = 1 /\ jobs[f].svm = jobs[f].ones + jobs[f].zeros) =>
                /\ ~PastLoop(jobs[f])
                /\ jobs[f].morphs = 0 /\ jobs[f].written = 0)

\* a job still in the loop after as many retries as the model follows
C13_Witness ==
    \E f \in DOMAIN jobs :
        /\ InLoop(jobs[f])
        /\ jobs[f].ones + jobs[f].zeros = MaxRetries
        /\ jobs[f].svm = MaxRetries

-----------------------------------------------------------------------------
(* The steps of a job and the shared data list (Spec)                      *)

\* C14: in one job readMRC and queryScore return once each and before the
\* first call of runSVM, morphologyOps is called once, on a mixed grid, and
\* extractParticles at most once, after morphologyOps and on the grid it
\* returned; a job that went through the Picker and is done made each of
\* these calls once and wrote one output.
C14_StepOrder ==
    \A f \in DOMAIN jobs :
        LET j == jobs[f]
        IN  /\ j.reads <= 1 /\ j.scores <= j.reads
            /\ j.morphs <= 1 /\ j.written <= j.morphs
            /\ j.svm >= 1 => j.scores = 1
            /\ j.morphs = 0 => IsNone(j.cleaned)
            /\ j.morphs = 1 =>
                  /\ LeftLoop(j)
                  /\ ~IsNone(j.cleaned) /\ Val(j.cleaned) \in CleanedGrids(Val(j.segmentation))
            /\ j.written = 0 => IsNone(j.extracted)
            /\ j.written = 1 => ~IsNone(j.extracted) /\ j.extracted = j.cleaned
            /\ j.pc = "readMRC" => j.reads = 0 /\ j.svm = 0
            /\ j.pc = "queryScore" => j.reads = 1 /\ j.scores = 0 /\ j.svm = 0
            /\ j.pc = "runSVM" => j.scores = 1 /\ j.morphs = 0
            /\ j.pc = "morphologyOps" => j.svm >= 1 /\ j.morphs = 0
            /\ j.pc = "extractParticles" => j.morphs = 1 /\ j.written = 0
            /\ (j.pc = "done" /\ j.pickers = 1) =>
                  j.reads = 1 /\ j.scores = 1 /\ j.morphs = 1 /\ j.written = 1

\* a job is done after a retry, the cleaning having discarded a window, while
\* another job of the batch is still between its steps
C14_Witness ==
    \E f, g \in DOMAIN jobs :
        /\ f # g
        /\ jobs[f].pc = "done" /\ jobs[f].written = 1 /\ jobs[f].ones + jobs[f].zeros >= 1
        /\ jobs[f].cleaned # jobs[f].segmentation
        /\ jobs[g].pc = "queryScore"

\* C15: once pick_particles has built the data list it stays as built from the
\* resolved configuration, which stays as resolved; every job gets its picker
\* and its locals from the resolved tau1 and tau2, and its locals differ from
\* them by its own increments only.
C15_SharedDataReadOnly ==
    Submitted =>
        /\ data = Some(build_data(mrc_dir, self))
        /\ result.kind = "ok"
        /\ self.tau1 = (IF IsNone(config.tau1) THEN Some(default_tau1(self.query_image_size))
                                               ELSE config.tau1)
        /\ self.tau2 = (IF IsNone(config.tau2) THEN Some(default_tau2(self.query_image_size))
                                               ELSE config.tau2)
        /\ \A f \in DOMAIN jobs :
              LET j == jobs[f]
              IN  j.pickers = 1 =>
                    /\ j.picker = Some([tau1 |-> Val(self.tau1), tau2 |-> Val(self.tau2)])
                    /\ j.tau1 = Val(self.tau1) + 500 * j.zeros
                    /\ j.tau2 = Val(self.tau2) + 500 * j.ones

\* on one worker a job has raised its tau1 and is done, and the job taken
\* after it is at its first step
C15_Witness ==
    /\ self.proc = 1
    /\ \E f, g \in DOMAIN jobs :
          /\ jobs[f].pc = "done" /\ jobs[f].zeros >= 1
          /\ jobs[f].tau1 = Val(self.tau1) + 500
          /\ jobs[g].pc = "readMRC" /\ jobs[g].tau1 = Val(self.tau1)

-----------------------------------------------------------------------------
(* The resolved configuration (SpecResolve)                                *)

Constructed == result.kind # "none"
ReachedValidation == result.kind \in {"ok", "ConfigError"}

\* the invariants of a resolved configuration, in the order of their list
Invariant(k, s) ==
    CASE k = 1  -> 1 <= Val(s.max_particle_size) /\ Val(s.max_particle_size) <= 3000
      [] k = 2  -> 1 <= s.query_image_size /\ s.query_image_size <= 3000
      [] k = 3  -> 5 <= s.particle_size /\ s.particle_size < 3000
      [] k = 4  -> 1 <= Val(s.min_particle_size) /\ Val(s.min_particle_size) < 3000
      [] k = 5  -> 0 <= Val(s.tau1)
                   /\ Val(s.tau1) * s.query_image_size * s.query_image_size <= 64000000
      [] k = 6  -> 0 <= Val(s.tau2)
                   /\ Val(s.tau2) * s.query_image_size * s.query_image_size <= 64000000
      [] k = 7  -> 0 <= Val(s.minimum_overlap_amount) /\ Val(s.minimum_overlap_amount) <= 3000
      [] k = 8  -> s.particle_size <= s.container_size /\ s.container_size <= 1900
      [] k = 9  -> s.particle_size >= s.query_image_size
      [] k = 10 -> s.proc >= 1

Violated(s) == {k \in 1..10 : ~Invariant(k, s)}

\* C5: a configuration whose construction completed satisfies the ten
\* invariants together, and a container_size above 1900 never completes.
C5_ResolvedInvariants ==
    /\ result.kind = "ok" => \A k \in 1..10 : Invariant(k, self)
    /\ (Constructed /\ config.container_size > 1900) => result.kind # "ok"

\* a completed construction in which the user supplied sizes and thresholds
C5_Witness ==
    /\ result.kind = "ok"
    /\ ~IsNone(config.max_particle_size)
    /\ ~IsNone(config.min_particle_size)
    /\ ~IsNone(config.tau1)
    /\ ~IsNone(config.tau2)

\* C6 as stated: with the other optional fields unset and container_size and
\* proc valid, particle_size = 3 ends the construction with a ConfigError and
\* nothing else, and particle_size = 5 is not rejected by the check of the
\* particle size.
C6_ParticleSizeBoundary ==
    (/\ Constructed
     /\ AllUnset(config)
     /\ config.container_size \in 5..1900
     /\ config.proc >= 1) =>
        /\ config.particle_size = 3 => result.kind = "ConfigError"
        /\ config.particle_size = 5 => ~(result.kind = "ConfigError" /\ result.check = 3)

\* C7: when the construction reaches verify_input_values, it is on the
\* derived values; it completes exactly when no invariant is violated, and
\* the ConfigError raised otherwise is the one of the first violated
\* invariant in the order of the list.  (A construction that stops before
\* validation, with a ZeroDivisionError, raises no ConfigError at all.)
C7_FirstViolationReported ==
    ReachedValidation =>
        /\ result.kind = "ok" <=> Violated(self) = {}
        /\ result.kind = "ConfigError" =>
             /\ result.check \in Violated(self)
             /\ \A k \in Violated(self) : result.check <= k
        /\ self.query_image_size = query_window_size(config.particle_size)
        /\ \A fld \in {"max_particle_size", "min_particle_size", "minimum_overlap_amount",
                       "tau1", "tau2", "output_dir"} : ~IsNone(self[fld])

\* a ConfigError raised while a later invariant is violated as well
C7_Witness ==
    /\ result.kind = "ConfigError"
    /\ result.check = 5
    /\ {6, 8, 10} \subseteq Violated(self)

\* C8: with all optional fields unset, a completed construction has
\* max_particle_size = 4p, min_particle_size = floor(p/6),
\* minimum_overlap_amount = floor(p/10), tau1 = floor(qBox*0.03) and
\* tau2 = floor(qBox*0.30), qBox = (4000^2/q^2)*4 for the query size q; for
\* p = 300: q = 200, 1200, 50, 30, 48 and 480.
C8_Derivation ==
    (result.kind = "ok" /\ AllUnset(config)) =>
        LET p == config.particle_size
            q == self.query_image_size
        IN  /\ Val(self.max_particle_size) = 4 * p
            /\ Val(self.min_particle_size) = p \div 6
            /\ Val(self.minimum_overlap_amount) = p \div 10
            /\ Val(self.tau1) = (16000000 * 4 * 3) \div (q * q * 100)
            /\ Val(self.tau2) = (16000000 * 4 * 30) \div (q * q * 100)
            /\ p = 300 =>
                 /\ q = 200
                 /\ Val(self.max_particle_size) = 1200
                 /\ Val(self.min_particle_size) = 50
                 /\ Val(self.minimum_overlap_amount) = 30
                 /\ Val(self.tau1) = 48
                 /\ Val(self.tau2) = 480

\* the construction with particle_size = 300 and nothing else set completed
C8_Witness ==
    /\ result.kind = "ok"
    /\ AllUnset(config)
    /\ config.particle_size = 300

\* C9 as stated: every optional field the user supplied is carried by the
\* resolved configuration with exactly the supplied value.
C9_SuppliedValuesKept ==
    result.kind = "ok" =>
        /\ ~IsNone(config.query_image_size) =>
               self.query_image_size = Val(config.query_image_size)
        /\ \A fld \in {"query_window_size", "max_particle_size", "min_particle_size",
                       "minimum_overlap_amount", "tau1", "tau2", "output_dir"} :
               ~IsNone(config[fld]) => self[fld] = config[fld]

-----------------------------------------------------------------------------
(* The output directory over successive runs (SpecOutDir)                  *)

SameAsBefore ==
    /\ run >= 2
    /\ ~IsNone(prev)
    /\ Val(prev).config = config
    /\ Val(prev).mrc_dir = mrc_dir
    /\ IsNone(config.output_dir)

\* C10: a construction that repeats the one before it, with the same
\* input directory and output_dir unset, derives the same output_dir and ends
\* as the one before did; the directory exists when it starts, no
\* FileExistsError is raised, and the file system is left as it was.
C10_OutputDirIdempotent ==
    (Constructed /\ SameAsBefore) =>
        /\ self.output_dir = Val(prev).output_dir
        /\ result = Val(prev).result
        /\ result.kind # "FileExistsError"
        /\ exists(fsAtStart, Val(self.output_dir))
        /\ fs = fsAtStart

\* the second of two successful constructions on the same input directory,
\* the first of which created the output directory
C10_Witness ==
    /\ Constructed
    /\ SameAsBefore
    /\ result.kind = "ok"
    /\ Val(prev).result.kind = "ok"
    /\ ~exists(FsInit, Val(self.output_dir))
    /\ exists(fs, Val(self.output_dir))

-----------------------------------------------------------------------------
(* The file system after a failed construction (SpecOutDir)                *)

Failed == Constructed /\ result.kind # "ok"

\* C18 as stated: when output_dir is unset and the construction of Apple
\* fails, the directories are those that existed before the call.
C18_FailedResolutionNoEffect ==
    (Failed /\ IsNone(config.output_dir)) => fs = fsAtStart

\* C18: when the construction of Apple fails with output_dir unset, the
\* derived output directory exists and the directories are those from before
\* the call, the derived directory and the directories above it; with
\* output_dir given they are those from before the call.
C18_FailedResolutionOutputDir ==
    Failed =>
        IF IsNone(config.output_dir)
        THEN /\ exists(fs, default_output_dir(mrc_dir))
             /\ fs = fsAtStart \cup Ancestors(default_output_dir(mrc_dir))
        ELSE fs = fsAtStart

\* a construction that failed in the validation has made the output directory
C18_Witness ==
    /\ Failed
    /\ result.kind = "ConfigError"
    /\ IsNone(config.output_dir)
    /\ ~exists(fsAtStart, default_output_dir(mrc_dir))
    /\ exists(fs, default_output_dir(mrc_dir))

-----------------------------------------------------------------------------
(* The query size (SpecResolve)                                            *)

FloorOfQuotient(a, b) == a \div b

\* C16: for a particle_size p >= 1 the query_image_size of the constructed
\* object is floor(p*2/3) minus its value modulo 4.
C16_RoundIsFloor ==
    (Constructed /\ config.particle_size >= 1) =>
        LET fl == FloorOfQuotient(config.particle_size * 2, 3)
        IN  self.query_image_size = fl - (fl % 4)

\* a particle_size whose two thirds round up, constructed and valid
C16_Witness ==
    /\ result.kind = "ok"
    /\ RoundOfQuotient(config.particle_size * 2, 3)
          = FloorOfQuotient(config.particle_size * 2, 3) + 1
    /\ self.query_image_size >= 4

-----------------------------------------------------------------------------
(* The start of the program (SpecMain)                                     *)

\* main has not handed a configuration to Apple (yet, or at all)
BeforeApple == pc \in {"main", "aborted"}

\* neither -s nor config.py names a particle size
ParticleSizeUnset == BeforeApple /\ IsNone(cli.s) /\ IsNone(config.particle_size)

\* -o names a directory that does not exist
OutDirMissing == ~IsNone(cli.o) /\ ~exists(fsAtStart, Val(cli.o))

PoolStarted == Submitted \/ ~IsNone(data) \/ jobs # <<>> \/ queue # {}

C17_OptionSOverrides ==
    (~IsNone(cli.s) /\ pc # "main") =>
        /\ cli.raised # "Exception"
        /\ ~BeforeApple => config.particle_size = Val(cli.s)
        /\ Constructed => self.particle_size = Val(cli.s)

=============================================================================
